---------------------------- MODULE Spec2Model ----------------------------
(***************************************************************************)
(* A model of asm_kernel/kernel.py: the assembly REPL sessions             *)
(* (EditableASMRepl, LinearASMRepl), the kernel's do_execute turn, the     *)
(* scoped temporary resources of run_binary / temp_binary, the parse of    *)
(* the debugger's transcript in LinearASMRepl.evaluate, and the register   *)
(* report of LinearASMRepl.print_result.                                   *)
(*                                                                         *)
(* Text is a sequence of one-character strings, so that strip, split,      *)
(* startswith, index and substring search are computed as Python computes  *)
(* them.  A dict is a sequence of <<key, value>> pairs with distinct keys, *)
(* in insertion order (a Python dict enumerates in insertion order, and an *)
(* assignment to an existing key keeps the key's position).                *)
(***************************************************************************)
EXTENDS Integers, Sequences, FiniteSets, TLC

VARIABLES
    variant,      \* the class of kernel.asm_repl: "Editable" or "Linear"
    labels,       \* EditableASMRepl.labels (dict label -> content)
    code_blocks,  \* LinearASMRepl.code_blocks (list of texts)
    submitted,    \* history: the fragments read since the last reset
    request,      \* the arguments of the do_execute just run, None between turns
    sent,         \* the messages that do_execute sent with send_response
    raised,       \* the exception that escaped that do_execute, or "none"
    toolout,      \* what the external tools answered in that do_execute
    before,       \* the session's labels and code_blocks when that do_execute began
    gdb_data,     \* print_result: the snapshots by checkpoint (dict of dicts)
    n_blocks,     \* print_result: len(self.code_blocks)
    report,       \* print_result: what it returned or raised, None before the call
    gdb_output,   \* evaluate: result["stdout"].decode(), the debugger's transcript
    parse_out,    \* evaluate: what the parse loop built or raised, None before it
    run,          \* run_binary / temp_binary: the number of the run
    caller,       \* "run_binary" (evaluate, magic_gdb) or "readelf" (magic_readelf)
    use_script,   \* whether gdb_script is truthy
    pc,           \* the statement the run is at
    files,        \* the temporary files that exist: [kind, run]
    proc,         \* the child process: "none", "running", "exited", "killed"
    exc           \* the exception propagating in the run, or "none"

session_vars ==
    <<variant, labels, code_blocks, submitted, request, sent, raised, toolout, before>>
diff_vars == <<gdb_data, n_blocks, report>>
run_vars == <<run, caller, use_script, pc, files, proc, exc>>
parse_vars == <<gdb_output, parse_out>>
vars == <<session_vars, diff_vars, run_vars, parse_vars>>

-----------------------------------------------------------------------------
(* Python str and list primitives, on sequences of characters.             *)

\* str.strip() and str.split() with no argument treat these as whitespace.
Whitespace == {" ", "\t", "\n", "\r"}

RECURSIVE LStrip(_)
LStrip(s) ==
    IF s # <<>> /\ Head(s) \in Whitespace THEN LStrip(Tail(s)) ELSE s

RECURSIVE RStrip(_)
RStrip(s) ==
    IF s # <<>> /\ s[Len(s)] \in Whitespace
    THEN RStrip(SubSeq(s, 1, Len(s) - 1))
    ELSE s

\* str.strip()
Strip(s) == RStrip(LStrip(s))

\* str.startswith(prefix)
StartsWith(s, prefix) ==
    /\ Len(prefix) <= Len(s)
    /\ SubSeq(s, 1, Len(prefix)) = prefix

\* `ch in s` for a one-character ch
Contains(s, ch) == \E i \in 1..Len(s) : s[i] = ch

\* `sub in s` for a text sub
IsSubstring(sub, s) ==
    \E i \in 0..(Len(s) - Len(sub)) : SubSeq(s, i + 1, i + Len(sub)) = sub

\* str.index(ch): the 0-based offset of the first ch (ch occurs in s)
Index(s, ch) == (CHOOSE i \in 1..Len(s) : s[i] = ch /\ \A j \in 1..(i - 1) : s[j] # ch) - 1

\* str.split(sep) for a one-character sep: always at least one piece
RECURSIVE Split(_, _)
Split(s, sep) ==
    IF ~Contains(s, sep)
    THEN <<s>>
    ELSE LET i == Index(s, sep)
         IN <<SubSeq(s, 1, i)>> \o Split(SubSeq(s, i + 2, Len(s)), sep)

\* "".join(parts)
RECURSIVE Concat(_)
Concat(parts) ==
    IF parts = <<>> THEN <<>> ELSE Head(parts) \o Concat(Tail(parts))

\* sep.join(parts)
RECURSIVE Join(_, _)
Join(parts, sep) ==
    IF parts = <<>> THEN <<>>
    ELSE IF Len(parts) = 1 THEN parts[1]
    ELSE parts[1] \o sep \o Join(Tail(parts), sep)

\* str(n) for n >= 0: the decimal digits
Digit(d) == <<"0", "1", "2", "3", "4", "5", "6", "7", "8", "9">>[d + 1]

RECURSIVE Str(_)
Str(n) == IF n < 10 THEN <<Digit(n)>> ELSE Str(n \div 10) \o <<Digit(n % 10)>>

\* dict: values(), `k in d`, d[k], d[k] = v
Values(d) == [i \in 1..Len(d) |-> d[i][2]]
HasKey(d, k) == \E i \in 1..Len(d) : d[i][1] = k
Get(d, k) == d[CHOOSE i \in 1..Len(d) : d[i][1] = k][2]
\* d[k] = v as a delete followed by an insert: an existing key moves to the end
DictSetMovesKey(d, k, v) ==
    Append(SelectSeq(d, LAMBDA e : e[1] # k), <<k, v>>)

DictSet(d, k, v) ==
    IF HasKey(d, k)
    THEN [i \in 1..Len(d) |-> IF d[i][1] = k THEN <<k, v>> ELSE d[i]]
    ELSE Append(d, <<k, v>>)

-----------------------------------------------------------------------------
(* ASMRepl: the fixed preamble and terminal marker, and the code property. *)

\* textwrap.dedent of the class attribute: "\n.intel_syntax noprefix\n
\* .global _start\n.set SYS_write, 1\n.set SYS_exit, 60\n\n.section .text\n\n"
asm_prefix ==
    <<"\n">>
    \o <<".", "i", "n", "t", "e", "l", "_", "s", "y", "n", "t", "a", "x", " ",
         "n", "o", "p", "r", "e", "f", "i", "x", "\n">>
    \o <<".", "g", "l", "o", "b", "a", "l", " ", "_", "s", "t", "a", "r", "t", "\n">>
    \o <<".", "s", "e", "t", " ", "S", "Y", "S", "_", "w", "r", "i", "t", "e", ",",
         " ", "1", "\n">>
    \o <<".", "s", "e", "t", " ", "S", "Y", "S", "_", "e", "x", "i", "t", ",", " ",
         "6", "0", "\n">>
    \o <<"\n">>
    \o <<".", "s", "e", "c", "t", "i", "o", "n", " ", ".", "t", "e", "x", "t", "\n">>
    \o <<"\n">>

\* LinearASMRepl.asm_prefix = ASMRepl.asm_prefix + "_start:\n"
linear_asm_prefix == asm_prefix \o <<"_", "s", "t", "a", "r", "t", ":", "\n">>

\* ".end: nop\n"
asm_suffix == <<".", "e", "n", "d", ":", " ", "n", "o", "p", "\n">>

\* the asm_prefix attribute as the class of the session resolves it
PrefixOf(v) == IF v = "Linear" THEN linear_asm_prefix ELSE asm_prefix

\* self.code_blocks: the list of LinearASMRepl, the values view of
\* EditableASMRepl.labels
CodeBlocksOf(v, lbls, blocks) == IF v = "Editable" THEN Values(lbls) ELSE blocks

\* ASMRepl.code: prefix, every block followed by a newline, suffix, stripped
Code(v, blocks) ==
    Strip(PrefixOf(v)
          \o Concat([i \in 1..Len(blocks) |-> blocks[i] \o <<"\n">>])
          \o asm_suffix)

-----------------------------------------------------------------------------
(* EditableASMRepl: the label-merge session.                               *)

\* Python's None is the empty option <<>>, a value x is <<x>>.
None == <<>>
Some(x) == <<x>>

\* `if label:` - neither None nor the empty string
Truthy(label) == label # None /\ label[1] # <<>>

\* the label test of read: `not line.startswith(".") and ":" in line`
IsLabelLine(line) == ~StartsWith(line, <<".">>) /\ Contains(line, ":")

\* the body of `for line in code.split("\n")`, then the commit after the loop
RECURSIVE ReadLoop(_, _, _, _)
ReadLoop(lines, label, content, lbls) ==
    IF lines = <<>>
    THEN IF Truthy(label) THEN DictSet(lbls, label[1], content) ELSE lbls
    ELSE LET line == Strip(Head(lines))
             lbls1 == IF IsLabelLine(line) /\ Truthy(label)
                      THEN DictSet(lbls, label[1], content)
                      ELSE lbls
             label1 == IF IsLabelLine(line)
                       THEN Some(SubSeq(line, 1, Index(line, ":")))
                       ELSE label
             content1 == (IF IsLabelLine(line) THEN <<>> ELSE content)
                         \o line \o <<"\n">>
         IN ReadLoop(Tail(lines), label1, content1, lbls1)

\* EditableASMRepl.read: the labels dict after reading code
EditableRead(lbls, code) == ReadLoop(Split(code, "\n"), None, <<>>, lbls)

\* readiness decided by the fragment beginning with the entry-point label
EditableReadyAtStart(code) == StartsWith(code, <<"_", "s", "t", "a", "r", "t">>)

\* what EditableASMRepl.read returns: `"_start" in code`
EditableReady(code) == IsSubstring(<<"_", "s", "t", "a", "r", "t">>, code)

-----------------------------------------------------------------------------
(* LinearASMRepl: the checkpoint session.                                  *)

\* f".block.{block_id}"
BlockLabel(block_id) == <<".", "b", "l", "o", "c", "k", ".">> \o Str(block_id)

\* ".end", the label of asm_suffix
EndLabel == <<".", "e", "n", "d">>

\* read numbering the blocks from 1: block_id = len(self.code_blocks) + 1
LinearReadOneBased(blocks, code) ==
    Append(blocks, BlockLabel(Len(blocks) + 1) \o <<":", "\n">> \o code)

\* LinearASMRepl.read: the code_blocks list after reading code (returns True)
LinearRead(blocks, code) ==
    Append(blocks, BlockLabel(Len(blocks)) \o <<":", "\n">> \o code)

\* tbreak(address): the seven script lines of one tracepoint
Tbreak(address) ==
    << <<"t", "b", "r", "e", "a", "k", " ">> \o address,
       <<"c", "o", "m", "m", "a", "n", "d", "s">>,
       <<"p", "r", "i", "n", "t", "f", " ", "\"", "#", "#", "#", "s", "t", "a", "r", "t",
         " ", "r", "e", "g", "i", "s", "t", "e", "r", "s", " ">>
           \o address \o <<"\\", "n", "\"">>,
       <<"i", "n", "f", "o", " ", "r", "e", "g", "i", "s", "t", "e", "r", "s">>,
       <<"p", "r", "i", "n", "t", "f", " ", "\"", "#", "#", "#", "e", "n", "d", "\\", "n", "\"">>,
       <<"c", "o", "n", "t", "i", "n", "u", "e">>,
       <<"e", "n", "d">> >>

\* the script with the loop over the blocks stopping one block early
ScriptLinesOneShort(n) ==
    Concat([i \in 1..(n - 1) |-> Tbreak(BlockLabel(i - 1))])
    \o Tbreak(EndLabel)
    \o << <<"r", "u", "n">> >>

\* the lines of LinearASMRepl.gdb_script for a session of n blocks
ScriptLines(n) ==
    Concat([i \in 1..n |-> Tbreak(BlockLabel(i - 1))])
    \o Tbreak(EndLabel)
    \o << <<"r", "u", "n">> >>

\* the gdb_script property: None for ASMRepl, the joined lines for LinearASMRepl
GdbScript(v, blocks) ==
    IF v = "Linear" THEN Some(Join(ScriptLines(Len(blocks)), <<"\n">>)) ELSE None

-----------------------------------------------------------------------------
(* LinearASMRepl.evaluate: the parse of the debugger's transcript.         *)

\* the first whitespace-delimited token of s (s starts with no whitespace)
RECURSIVE Token(_)
Token(s) ==
    IF s = <<>> \/ Head(s) \in Whitespace THEN <<>> ELSE <<Head(s)>> \o Token(Tail(s))

\* str.split(): the whitespace-delimited tokens, none of them empty
RECURSIVE SplitWs(_)
SplitWs(s) ==
    LET t == LStrip(s)
    IN IF t = <<>> THEN <<>>
       ELSE <<Token(t)>> \o SplitWs(SubSeq(t, Len(Token(t)) + 1, Len(t)))

\* split(maxsplit=n) taken for split(): every token is a piece of its own
SplitWsAll(s, n) == SplitWs(s)

\* str.split(maxsplit=n): at most n splits, the rest of the line (leading
\* whitespace removed, trailing whitespace kept) as the last piece
RECURSIVE SplitWsMax(_, _)
SplitWsMax(s, n) ==
    LET t == LStrip(s)
    IN IF t = <<>> THEN <<>>
       ELSE IF n = 0 THEN <<t>>
       ELSE <<Token(t)>> \o SplitWsMax(SubSeq(t, Len(Token(t)) + 1, Len(t)), n - 1)

\* the loop without its `elif line == "###end"` branch: the closing delimiter
\* is a line like any other and capture never ends
RECURSIVE ParseLoopNeverCloses(_, _, _, _)
ParseLoopNeverCloses(lines, state, block, data) ==
    IF lines = <<>> THEN [exc |-> "none", data |-> data]
    ELSE LET line == Head(lines) IN
         IF StartsWith(line, <<"#", "#", "#", "s", "t", "a", "r", "t">>)
         THEN IF Len(SplitWs(line)) # 3
              THEN [exc |-> "ValueError", data |-> data]
              ELSE ParseLoopNeverCloses(Tail(lines), Some(SplitWs(line)[2]),
                                        Some(SplitWs(line)[3]),
                                        DictSet(data, SplitWs(line)[3], <<>>))
         ELSE IF state = Some(<<"r", "e", "g", "i", "s", "t", "e", "r", "s">>)
         THEN IF Len(SplitWsMax(line, 2)) # 3
              THEN [exc |-> "ValueError", data |-> data]
              ELSE LET row == SplitWsMax(line, 2)
                   IN ParseLoopNeverCloses(Tail(lines), state, block,
                                           DictSet(data, block[1],
                                                   DictSet(Get(data, block[1]), row[1],
                                                           <<row[2], row[3]>>)))
         ELSE ParseLoopNeverCloses(Tail(lines), state, block, data)

\* the body of `for line in gdb_output.split("\n")`: [exc, data], where exc is
\* the exception that ends the loop ("none" when it runs to its end)
RECURSIVE ParseLoop(_, _, _, _)
ParseLoop(lines, state, block, data) ==
    IF lines = <<>> THEN [exc |-> "none", data |-> data]
    ELSE LET line == Head(lines) IN
         IF StartsWith(line, <<"#", "#", "#", "s", "t", "a", "r", "t">>)
         THEN \* _, state, block = line.split()
              IF Len(SplitWs(line)) # 3
              THEN [exc |-> "ValueError", data |-> data]
              ELSE ParseLoop(Tail(lines), Some(SplitWs(line)[2]), Some(SplitWs(line)[3]),
                             DictSet(data, SplitWs(line)[3], <<>>))
         ELSE IF line = <<"#", "#", "#", "e", "n", "d">>
         THEN ParseLoop(Tail(lines), None, block, data)
         ELSE IF state = Some(<<"r", "e", "g", "i", "s", "t", "e", "r", "s">>)
         THEN \* register, value, extra = line.split(maxsplit=2)
              IF Len(SplitWsMax(line, 2)) # 3
              THEN [exc |-> "ValueError", data |-> data]
              ELSE LET row == SplitWsMax(line, 2)
                   IN ParseLoop(Tail(lines), state, block,
                                DictSet(data, block[1],
                                        DictSet(Get(data, block[1]), row[1],
                                                <<row[2], row[3]>>)))
         ELSE ParseLoop(Tail(lines), state, block, data)

\* the parse with the loop's exception swallowed: the rows read so far are
\* returned as if the transcript had ended there
ParseSwallows(output) ==
    [exc |-> "none", data |-> ParseLoop(Split(output, "\n"), None, None, <<>>).data]

\* the parse of evaluate: gdb_data from the transcript text
Parse(output) == ParseLoop(Split(output, "\n"), None, None, <<>>)

-----------------------------------------------------------------------------
(* LinearASMRepl.print_result: the register report.                        *)

\* the registers left out of the comparison and of the display
SegmentRegisters ==
    { <<"c", "s">>, <<"s", "s">>, <<"d", "s">>, <<"e", "s">>, <<"f", "s">>, <<"g", "s">> }

Eflags == <<"e", "f", "l", "a", "g", "s">>

\* the `if k not in ["cs", "ss", "ds", "es", "fs", "gs"]` of the comprehension:
\* the pairs of a snapshot whose register is no segment register, in order
RECURSIVE NotSegment(_)
NotSegment(d) ==
    IF d = <<>> THEN <<>>
    ELSE (IF Head(d)[1] \notin SegmentRegisters THEN <<Head(d)>> ELSE <<>>)
         \o NotSegment(Tail(d))

\* register_values keeping the raw value v[0] of every register
ComparedRaw(k, v) == v[1]

\* the value register_values keeps for register k: v[0], for eflags v[1]
Compared(k, v) == IF k # Eflags THEN v[1] ELSE v[2]

\* register_values(block_id), on the snapshot of that block
RegisterValues(snapshot) ==
    [i \in 1..Len(NotSegment(snapshot)) |->
       <<NotSegment(snapshot)[i][1],
         Compared(NotSegment(snapshot)[i][1], NotSegment(snapshot)[i][2])>>]

\* the changed set: the registers of the last block's snapshot whose value
\* differs from registers[k] (all of them are keys of registers)
Changed(last, registers) ==
    { last[i][1] : i \in { j \in 1..Len(last) : last[j][2] # Get(registers, last[j][1]) } }

\* columns = 3
columns == 3

\* math.ceil(len(registers) / columns)
Rows(n) == (n + columns - 1) \div columns

\* the cells filled row by row, the last register repeated past the end
ElementIndexRowMajor(n, row, column) ==
    IF columns * row + column < n THEN columns * row + column ELSE n - 1

\* register_element(row, column): the 0-based index into registers
ElementIndex(n, row, column) == (n \div columns) * column + row

\* the table: rows of `columns` cells, each cell the name, the value and
\* whether the cell carries the changed style
Grid(registers, changed) ==
    [r \in 1..Rows(Len(registers)) |->
       [c \in 1..columns |->
          LET e == registers[ElementIndex(Len(registers), r - 1, c - 1) + 1]
          IN [b |-> e[1], div |-> e[2], changed |-> e[1] \in changed]]]

\* print_result raises (a lookup of a missing key)
Raises(e) == [exc |-> e, changed |-> {}, shown |-> <<>>, registers |-> <<>>]

\* print_result(gdb_data) for a session of n code blocks: exc is the exception
\* it raises ("none" when it returns), changed and shown are its locals
\* `changed` and `registers` (name and value), registers is the table returned
PrintResult(data, n) ==
    IF ~HasKey(data, EndLabel) THEN Raises("KeyError")
    ELSE IF ~HasKey(data, BlockLabel(n - 1)) THEN Raises("KeyError")
    ELSE LET registers == RegisterValues(Get(data, EndLabel))
             last == RegisterValues(Get(data, BlockLabel(n - 1)))
         IN IF \E i \in 1..Len(last) : ~HasKey(registers, last[i][1])
            THEN Raises("KeyError")
            ELSE [exc |-> "none",
                  changed |-> Changed(last, registers),
                  shown |-> registers,
                  registers |-> Grid(registers, Changed(last, registers))]

-----------------------------------------------------------------------------
(* The inputs of a turn: the text of the cell, and what the external       *)
(* assembler and the run under the debugger answer.                        *)

\* the most fragments read between two resets
MaxSubmits == 2

\* the cells that are fragments:
\*   "x:\na\ny:\nb"   "x:\nc"   "a\n.d:\n y: c "   "b"   ":\na"   "_start:\na"
\*   "a _start"
Fragments ==
    { <<"x", ":", "\n", "a", "\n", "y", ":", "\n", "b">>,
      <<"x", ":", "\n", "c">>,
      <<"a", "\n", ".", "d", ":", "\n", " ", "y", ":", " ", "c", " ">>,
      <<"b">>,
      <<":", "\n", "a">>,
      <<"_", "s", "t", "a", "r", "t", ":", "\n", "a">>,
      <<"a", " ", "_", "s", "t", "a", "r", "t">> }

\* the cells that are directives:
\*   "%asm"   "%reset"   "%readelf"   "%gdb\nrun"   "%gdb"   "%foo"
Directives ==
    { <<"%", "a", "s", "m">>,
      <<"%", "r", "e", "s", "e", "t">>,
      <<"%", "r", "e", "a", "d", "e", "l", "f">>,
      <<"%", "g", "d", "b", "\n", "r", "u", "n">>,
      <<"%", "g", "d", "b">>,
      <<"%", "f", "o", "o">> }

\* the assembler's diagnostic text on a rejected program: "bad"
Diagnostic == <<"b", "a", "d">>

\* what the debugger prints at one tracepoint of the generated script: the
\* opening delimiter with the address, the register rows, the closing delimiter
SnapshotLines(address, rows) ==
    << <<"#", "#", "#", "s", "t", "a", "r", "t", " ",
         "r", "e", "g", "i", "s", "t", "e", "r", "s", " ">> \o address >>
    \o rows
    \o << <<"#", "#", "#", "e", "n", "d">> >>

\* register rows at a fragment boundary: "rax 0x0 0", "eflags 0x246 [ ZF ]",
\* "cs 0x33 51"
BlockRows ==
    << <<"r", "a", "x", " ", "0", "x", "0", " ", "0">>,
       <<"e", "f", "l", "a", "g", "s", " ", "0", "x", "2", "4", "6", " ",
         "[", " ", "Z", "F", " ", "]">>,
       <<"c", "s", " ", "0", "x", "3", "3", " ", "5", "1">> >>

\* register rows at the terminal marker: "rax 0x1 1", "eflags 0x246 [ ZF ]",
\* "cs 0x33 51"
EndRows ==
    << <<"r", "a", "x", " ", "0", "x", "1", " ", "1">>,
       <<"e", "f", "l", "a", "g", "s", " ", "0", "x", "2", "4", "6", " ",
         "[", " ", "Z", "F", " ", "]">>,
       <<"c", "s", " ", "0", "x", "3", "3", " ", "5", "1">> >>

\* the transcript of a run in which the tracepoints of the first `reached`
\* blocks fire, and the terminal one too when atEnd; "hi" is the program's own
\* output
Transcript(reached, atEnd) ==
    Join(<< <<"h", "i">> >>
         \o Concat([i \in 1..reached |-> SnapshotLines(BlockLabel(i - 1), BlockRows)])
         \o (IF atEnd THEN SnapshotLines(EndLabel, EndRows) ELSE <<>>),
         <<"\n">>)

\* a transcript with a row of two tokens ("rax 0x0") inside an open snapshot
MalformedTranscript ==
    Join(SnapshotLines(BlockLabel(0), << <<"r", "a", "x", " ", "0", "x", "0">> >>), <<"\n">>)

\* the answers of the tools to an evaluation of a session of n blocks: the
\* assembler rejects; or the program runs to the terminal marker, exits after
\* its last fragment started, crashes before its last fragment, or the
\* transcript is malformed
ToolAnswers(n) ==
    { [asm |-> "reject", stdout |-> <<>>, stderr |-> Diagnostic, returncode |-> 1],
      [asm |-> "ok", stdout |-> Transcript(n, TRUE), stderr |-> <<>>, returncode |-> 0],
      [asm |-> "ok", stdout |-> Transcript(n, FALSE), stderr |-> <<>>, returncode |-> 1],
      [asm |-> "ok", stdout |-> Transcript(n - 1, FALSE), stderr |-> <<"w">>, returncode |-> 139],
      [asm |-> "ok", stdout |-> MalformedTranscript, stderr |-> <<>>, returncode |-> 0] }

\* no external tool ran in the turn
NoTool == [asm |-> "none", stdout |-> <<>>, stderr |-> <<>>, returncode |-> 0]

-----------------------------------------------------------------------------
(* ASMRepl.evaluate, LinearASMRepl.evaluate and the directives.            *)

\* ASMRepl.evaluate: build_binary raises CalledProcessError when the assembler
\* rejects self.code; else the run's stdout, stderr and returncode
BaseEvaluate(tool) ==
    IF tool.asm = "reject"
    THEN [exc |-> "CalledProcessError", results |-> <<>>]
    ELSE [exc |-> "none",
          results |-> << <<"stdout", tool.stdout>>, <<"stderr", tool.stderr>>,
                         <<"returncode", tool.returncode>> >>]

\* LinearASMRepl.evaluate: the base evaluation, the parse of its stdout, and
\* print_result
LinearEvaluate(blocks, tool) ==
    LET base == BaseEvaluate(tool)
        parsed == Parse(tool.stdout)
        printed == PrintResult(parsed.data, Len(blocks))
    IN IF base.exc # "none" THEN base
       ELSE IF parsed.exc # "none" THEN [exc |-> parsed.exc, results |-> <<>>]
       ELSE IF printed.exc # "none" THEN [exc |-> printed.exc, results |-> <<>>]
       ELSE [exc |-> "none", results |-> << <<"registers", printed.registers>> >>]

\* self.asm_repl.evaluate() as the class of the session resolves it
Evaluate(v, blocks, tool) ==
    IF v = "Linear" THEN LinearEvaluate(blocks, tool) ELSE BaseEvaluate(tool)

\* a reset that drops every block but the first
ClearKeepsFirst(store) == IF store = <<>> THEN <<>> ELSE <<store[1]>>

\* ASMRepl.reset / EditableASMRepl.reset: list.clear(), dict.clear()
Clear(store) == <<>>

\* `code.startswith("%")`
IsMagic(code) == StartsWith(code, <<"%">>)

\* `code.split()[0][1:]`
MagicName(code) == Tail(SplitWs(code)[1])

\* the keys of the magics dict: "readelf", "asm", "reset", "gdb"
Magics ==
    { <<"r", "e", "a", "d", "e", "l", "f">>, <<"a", "s", "m">>,
      <<"r", "e", "s", "e", "t">>, <<"g", "d", "b">> }

\* the end of do_execute's try block and its except clause: the results are
\* rendered and sent as display_data; a CalledProcessError is caught and its
\* stderr sent as a stream; any other exception escapes do_execute
Messages(outcome, tool) ==
    IF outcome.exc = "none"
    THEN << [msg_type |-> "display_data", results |-> outcome.results] >>
    ELSE IF outcome.exc = "CalledProcessError"
    THEN << [msg_type |-> "stream", name |-> "stderr", text |-> tool.stderr] >>
    ELSE <<>>

Escapes(outcome) ==
    IF outcome.exc \in {"none", "CalledProcessError"} THEN "none" ELSE outcome.exc

-----------------------------------------------------------------------------
(* ASMKernel.do_execute, one action per path through it.                   *)

\* self.asm_repl.code_blocks and self.asm_repl.code in the current state
CodeBlocks == CodeBlocksOf(variant, labels, code_blocks)
Render == Code(variant, CodeBlocks)

\* the answers of readelf: the assembler rejects; readelf prints its report
\* ("EL"); readelf exits non-zero
ReadelfAnswers ==
    { [asm |-> "reject", stdout |-> <<>>, stderr |-> Diagnostic, returncode |-> 1],
      [asm |-> "ok", stdout |-> <<"E", "L">>, stderr |-> <<>>, returncode |-> 0],
      [asm |-> "ok", stdout |-> <<>>, stderr |-> <<>>, returncode |-> 1] }

\* ASMKernel.__init__ builds the session; both session classes are modelled
SessionInit ==
    /\ variant \in {"Editable", "Linear"}
    /\ labels = <<>>
    /\ code_blocks = <<>>
    /\ submitted = <<>>
    /\ request = None
    /\ sent = <<>>
    /\ raised = "none"
    /\ toolout = NoTool
    /\ before = None

\* do_execute(code, silent=True): nothing is read, run or sent
SilentTurn(code) ==
    /\ UNCHANGED <<diff_vars, run_vars, parse_vars>>
    /\ request = None
    /\ request' = Some([code |-> code, silent |-> TRUE])
    /\ before' = Some([labels |-> labels, code_blocks |-> code_blocks])
    /\ sent' = <<>>
    /\ raised' = "none"
    /\ toolout' = NoTool
    /\ UNCHANGED <<variant, labels, code_blocks, submitted>>

\* a fragment whose read() returns False: the empty results are displayed
FragmentStored(code) ==
    /\ UNCHANGED <<diff_vars, run_vars, parse_vars>>
    /\ request = None
    /\ ~IsMagic(code)
    /\ Len(submitted) < MaxSubmits
    /\ variant = "Editable"
    /\ ~EditableReady(code)
    /\ labels' = EditableRead(labels, code)
    /\ submitted' = Append(submitted, code)
    /\ request' = Some([code |-> code, silent |-> FALSE])
    /\ before' = Some([labels |-> labels, code_blocks |-> code_blocks])
    /\ sent' = Messages([exc |-> "none", results |-> <<>>], NoTool)
    /\ raised' = "none"
    /\ toolout' = NoTool
    /\ UNCHANGED <<variant, code_blocks>>

\* a fragment whose read() returns True: read(code), then evaluate()
FragmentEvaluated(code) ==
    /\ UNCHANGED <<diff_vars, run_vars, parse_vars>>
    /\ request = None
    /\ ~IsMagic(code)
    /\ Len(submitted) < MaxSubmits
    /\ variant = "Editable" => EditableReady(code)
    /\ labels' = IF variant = "Editable" THEN EditableRead(labels, code) ELSE labels
    /\ code_blocks' = IF variant = "Linear" THEN LinearRead(code_blocks, code) ELSE code_blocks
    /\ submitted' = Append(submitted, code)
    /\ request' = Some([code |-> code, silent |-> FALSE])
    /\ before' = Some([labels |-> labels, code_blocks |-> code_blocks])
    /\ \E tool \in ToolAnswers(Len(CodeBlocksOf(variant, labels', code_blocks'))) :
          LET outcome == Evaluate(variant, CodeBlocksOf(variant, labels', code_blocks'), tool)
          IN /\ sent' = Messages(outcome, tool)
             /\ raised' = Escapes(outcome)
             /\ toolout' = tool
    /\ UNCHANGED variant

\* %asm with a rendering that consumes the blocks it reads
MagicAsmDrains(code) ==
    /\ UNCHANGED <<diff_vars, run_vars, parse_vars>>
    /\ request = None
    /\ IsMagic(code)
    /\ MagicName(code) = <<"a", "s", "m">>
    /\ request' = Some([code |-> code, silent |-> FALSE])
    /\ before' = Some([labels |-> labels, code_blocks |-> code_blocks])
    /\ sent' = Messages([exc |-> "none", results |-> << <<"asm", Render>> >>], NoTool)
    /\ raised' = "none"
    /\ toolout' = NoTool
    /\ labels' = <<>>
    /\ code_blocks' = <<>>
    /\ UNCHANGED <<variant, submitted>>

\* %asm: magic_asm returns the program text
MagicAsm(code) ==
    /\ UNCHANGED <<diff_vars, run_vars, parse_vars>>
    /\ request = None
    /\ IsMagic(code)
    /\ MagicName(code) = <<"a", "s", "m">>
    /\ request' = Some([code |-> code, silent |-> FALSE])
    /\ before' = Some([labels |-> labels, code_blocks |-> code_blocks])
    /\ sent' = Messages([exc |-> "none", results |-> << <<"asm", Render>> >>], NoTool)
    /\ raised' = "none"
    /\ toolout' = NoTool
    /\ UNCHANGED <<variant, labels, code_blocks, submitted>>

\* %readelf: magic_readelf builds the binary and runs readelf on it; a failing
\* readelf raises a CalledProcessError whose stderr is None (check_output was
\* not given stderr), and the handler's e.stderr.decode raises AttributeError
MagicReadelf(code) ==
    /\ UNCHANGED <<diff_vars, run_vars, parse_vars>>
    /\ request = None
    /\ IsMagic(code)
    /\ MagicName(code) = <<"r", "e", "a", "d", "e", "l", "f">>
    /\ request' = Some([code |-> code, silent |-> FALSE])
    /\ before' = Some([labels |-> labels, code_blocks |-> code_blocks])
    /\ \E tool \in ReadelfAnswers :
          LET outcome ==
                  IF tool.asm = "reject" THEN [exc |-> "CalledProcessError", results |-> <<>>]
                  ELSE IF tool.returncode # 0 THEN [exc |-> "AttributeError", results |-> <<>>]
                  ELSE [exc |-> "none", results |-> << <<"readelf", tool.stdout>> >>]
          IN /\ sent' = Messages(outcome, tool)
             /\ raised' = Escapes(outcome)
             /\ toolout' = tool
    /\ UNCHANGED <<variant, labels, code_blocks, submitted>>

\* %reset: magic_reset resets the session and returns None, so that
\* results.items() raises AttributeError after the reset
MagicReset(code) ==
    /\ UNCHANGED <<diff_vars, run_vars, parse_vars>>
    /\ request = None
    /\ IsMagic(code)
    /\ MagicName(code) = <<"r", "e", "s", "e", "t">>
    /\ labels' = IF variant = "Editable" THEN Clear(labels) ELSE labels
    /\ code_blocks' = IF variant = "Linear" THEN Clear(code_blocks) ELSE code_blocks
    /\ submitted' = <<>>
    /\ request' = Some([code |-> code, silent |-> FALSE])
    /\ before' = Some([labels |-> labels, code_blocks |-> code_blocks])
    /\ sent' = <<>>
    /\ raised' = "AttributeError"
    /\ toolout' = NoTool
    /\ UNCHANGED variant

\* %gdb: magic_gdb builds the binary and runs it under the script that follows
\* the first line of the cell; the run's stdout is the result
MagicGdb(code) ==
    /\ UNCHANGED <<diff_vars, run_vars, parse_vars>>
    /\ request = None
    /\ IsMagic(code)
    /\ MagicName(code) = <<"g", "d", "b">>
    /\ request' = Some([code |-> code, silent |-> FALSE])
    /\ before' = Some([labels |-> labels, code_blocks |-> code_blocks])
    /\ \E tool \in { t \in ToolAnswers(Len(CodeBlocks)) : t.returncode < 2 } :
          LET outcome ==
                  IF tool.asm = "reject" THEN [exc |-> "CalledProcessError", results |-> <<>>]
                  ELSE [exc |-> "none", results |-> << <<"gdb", tool.stdout>> >>]
          IN /\ sent' = Messages(outcome, tool)
             /\ raised' = Escapes(outcome)
             /\ toolout' = tool
    /\ UNCHANGED <<variant, labels, code_blocks, submitted>>

\* a directive that is no key of magics: the empty results are displayed
UnknownMagic(code) ==
    /\ UNCHANGED <<diff_vars, run_vars, parse_vars>>
    /\ request = None
    /\ IsMagic(code)
    /\ MagicName(code) \notin Magics
    /\ request' = Some([code |-> code, silent |-> FALSE])
    /\ before' = Some([labels |-> labels, code_blocks |-> code_blocks])
    /\ sent' = Messages([exc |-> "none", results |-> <<>>], NoTool)
    /\ raised' = "none"
    /\ toolout' = NoTool
    /\ UNCHANGED <<variant, labels, code_blocks, submitted>>

\* do_execute is over (it returned its status, or its exception reached the
\* kernel's loop): the kernel waits for the next cell
TurnEnds ==
    /\ UNCHANGED <<diff_vars, run_vars, parse_vars>>
    /\ request # None
    /\ request' = None
    /\ sent' = <<>>
    /\ raised' = "none"
    /\ toolout' = NoTool
    /\ before' = None
    /\ UNCHANGED <<variant, labels, code_blocks, submitted>>

DoExecute ==
    \E code \in Fragments \cup Directives :
        \/ SilentTurn(code)
        \/ FragmentStored(code)
        \/ FragmentEvaluated(code)
        \/ MagicAsm(code)
        \/ MagicReadelf(code)
        \/ MagicReset(code)
        \/ MagicGdb(code)
        \/ UnknownMagic(code)

-----------------------------------------------------------------------------
(* print_result applied to snapshot maps drawn from bounded sets.          *)

\* the most code blocks of the session whose report is built
MaxBlocks == 2

\* the <<value, extra>> pairs a register row may carry
RaxRows == { << <<"0", "x", "0">>, <<"0">> >>, << <<"0", "x", "1">>, <<"1">> >>,
             << <<"0", "x", "0">>, <<"1">> >> }
EflagsRows == { << <<"0", "x", "2">>, <<"[", " ", "]">> >>,
                << <<"0", "x", "6">>, <<"[", " ", "P", "F", " ", "]">> >>,
                << <<"0", "x", "2">>, <<"[", " ", "P", "F", " ", "]">> >> }
CsRows == { << <<"0", "x", "3", "3">>, <<"5", "1">> >>, << <<"0", "x", "2", "b">>, <<"4", "3">> >> }

\* the dicts with key k or without it
Optional(k, rows) == {<<>>} \cup { << <<k, r>> >> : r \in rows }

\* the snapshots: rax, eflags and cs in the debugger's order, each present or not
Snapshots ==
    { a \o b \o c : a \in Optional(<<"r", "a", "x">>, RaxRows),
                    b \in Optional(Eflags, EflagsRows),
                    c \in Optional(<<"c", "s">>, CsRows) }

\* the snapshot maps: the snapshot of one block, or none, then the terminal
\* snapshot, or none
SnapshotMaps ==
    { a \o b : a \in {<<>>} \cup { << <<BlockLabel(k), snap>> >> : k \in 0..(MaxBlocks - 1), snap \in Snapshots },
               b \in {<<>>} \cup { << <<EndLabel, snap>> >> : snap \in Snapshots } }

DiffIdle == gdb_data = <<>> /\ n_blocks = 0 /\ report = None

DiffInit ==
    /\ gdb_data \in SnapshotMaps
    /\ n_blocks \in 1..MaxBlocks
    /\ report = None

\* self.print_result(gdb_data)
PrintResultCall ==
    /\ report = None
    /\ report' = Some(PrintResult(gdb_data, n_blocks))
    /\ UNCHANGED <<gdb_data, n_blocks, session_vars, run_vars, parse_vars>>

-----------------------------------------------------------------------------
(* print_result applied to snapshots of any number of registers.           *)

\* the most general registers of a snapshot
MaxRegisters == 7

\* the name of the i-th general register drawn: "r8", "r9", "r10", ...
RegisterName(i) == <<"r">> \o Str(i + 7)

\* a snapshot of m general registers, the k-th of them holding 1 and the
\* others 0, with cs after the first s of them (no cs when s > m)
GridSnapshot(m, k, s) ==
    LET general == [i \in 1..m |->
                      <<RegisterName(i),
                        IF i = k THEN << <<"0", "x", "1">>, <<"1">> >>
                                 ELSE << <<"0", "x", "0">>, <<"0">> >> >>]
    IN IF s > m THEN general
       ELSE SubSeq(general, 1, s)
            \o << << <<"c", "s">>, << <<"0", "x", "3", "3">>, <<"5", "1">> >> >> >>
            \o SubSeq(general, s + 1, m)

\* the snapshot maps of a session of one block: the same registers at .block.0
\* and at .end, at most one of them changed in between
GridInit ==
    /\ \E m \in 0..MaxRegisters : \E k \in 0..m : \E s \in 0..(m + 1) :
          gdb_data = << <<BlockLabel(0), GridSnapshot(m, 0, s)>>,
                        <<EndLabel, GridSnapshot(m, k, s)>> >>
    /\ n_blocks = 1
    /\ report = None

-----------------------------------------------------------------------------
(* run_binary and temp_binary: the temporary files and the child process   *)
(* of one run, statement by statement.                                     *)

\* the most runs in one behaviour
MaxRuns == 2

\* process.kill() skipped
KillSkipped(p) == p

\* process.kill(): a running child is killed, an exited one is left alone
Kill(p) == IF p = "running" THEN "killed" ELSE p

File(kind) == [kind |-> kind, run |-> run]

RunIdle ==
    /\ run = 0 /\ caller = "none" /\ use_script = FALSE /\ pc = "idle"
    /\ files = {} /\ proc = "none" /\ exc = "none"

\* the exception `e` leaves run_binary (or magic_readelf) with no handler of
\* theirs in the way
Propagates(e) == exc' = e /\ pc' = "raised"

\* evaluate / magic_gdb enter run_binary, magic_readelf enters temp_binary
RunStarts ==
    /\ pc = "idle"
    /\ run < MaxRuns
    /\ run' = run + 1
    /\ \E c \in {"run_binary", "readelf"}, g \in BOOLEAN :
          /\ c = "readelf" => ~g
          /\ caller' = c
          /\ use_script' = g
          /\ pc' = IF g THEN "script" ELSE "binary"
    /\ proc' = "none"
    /\ exc' = "none"
    /\ UNCHANGED <<files, session_vars, diff_vars, parse_vars>>

\* run_binary: `with tempfile.NamedTemporaryFile("w", delete=False) as script:
\* script.write(gdb_script)`; the file is not made, or is made and the write
\* fails, or is made and written
MakeScript ==
    /\ pc = "script"
    /\ \/ Propagates("OSError") /\ UNCHANGED files
       \/ Propagates("OSError") /\ files' = files \cup {File("script")}
       \/ pc' = "binary" /\ files' = files \cup {File("script")} /\ UNCHANGED exc
    /\ UNCHANGED <<run, caller, use_script, proc, session_vars, diff_vars, parse_vars>>

\* temp_binary: `with tempfile.NamedTemporaryFile(delete=False) as f:
\* f.write(binary)`
MakeBinary ==
    /\ pc = "binary"
    /\ \/ Propagates("OSError") /\ UNCHANGED files
       \/ Propagates("OSError") /\ files' = files \cup {File("binary")}
       \/ pc' = "chmod" /\ files' = files \cup {File("binary")} /\ UNCHANGED exc
    /\ UNCHANGED <<run, caller, use_script, proc, session_vars, diff_vars, parse_vars>>

\* temp_binary: `os.chmod(path, 0o755)`, before the try
Chmod ==
    /\ pc = "chmod"
    /\ \/ Propagates("OSError")
       \/ pc' = (IF caller = "readelf" THEN "readelf" ELSE "spawn") /\ UNCHANGED exc
    /\ UNCHANGED <<run, caller, use_script, files, proc, session_vars, diff_vars, parse_vars>>

\* run_binary: `process = subprocess.Popen(cmd, **kwargs)`, inside temp_binary's
\* with and before run_binary's try: a failure goes to temp_binary's finally
Spawn ==
    /\ pc = "spawn"
    /\ \/ exc' = "OSError" /\ pc' = "unlink_binary" /\ UNCHANGED proc
       \/ proc' = "running" /\ pc' = "body" /\ UNCHANGED exc
    /\ UNCHANGED <<run, caller, use_script, files, session_vars, diff_vars, parse_vars>>

\* the body of the caller's with: `process.communicate()` returns once the child
\* has exited, or an exception is raised while the child runs or after it exited
Body ==
    /\ pc = "body"
    /\ \/ proc' = "exited" /\ UNCHANGED exc
       \/ exc' = "Exception" /\ proc' \in {"running", "exited"}
    /\ pc' = "kill"
    /\ UNCHANGED <<run, caller, use_script, files, session_vars, diff_vars, parse_vars>>

\* run_binary's finally: `process.kill()`
KillProcess ==
    /\ pc = "kill"
    /\ proc' = Kill(proc)
    /\ pc' = IF use_script THEN "unlink_script" ELSE "unlink_binary"
    /\ UNCHANGED <<run, caller, use_script, files, exc, session_vars, diff_vars, parse_vars>>

\* run_binary's finally: `if gdb_script: os.unlink(script.name)`
UnlinkScript ==
    /\ pc = "unlink_script"
    /\ files' = files \ {File("script")}
    /\ pc' = "unlink_binary"
    /\ UNCHANGED <<run, caller, use_script, proc, exc, session_vars, diff_vars, parse_vars>>

\* magic_readelf: `subprocess.check_output(["/usr/bin/readelf", "-a", binary_path])`
Readelf ==
    /\ pc = "readelf"
    /\ \/ exc' = "CalledProcessError"
       \/ UNCHANGED exc
    /\ pc' = "unlink_binary"
    /\ UNCHANGED <<run, caller, use_script, files, proc, session_vars, diff_vars, parse_vars>>

\* temp_binary's finally: `os.unlink(path)`; the scope is left, towards the
\* parse of the caller when nothing was raised
UnlinkBinary ==
    /\ pc = "unlink_binary"
    /\ files' = files \ {File("binary")}
    /\ pc' = IF exc # "none" THEN "raised"
             ELSE IF caller = "run_binary" THEN "parse" ELSE "returned"
    /\ UNCHANGED <<run, caller, use_script, proc, exc, session_vars, diff_vars, parse_vars>>

\* LinearASMRepl.evaluate after the with: the parse of the transcript and
\* print_result, which return or raise
ParseStep ==
    /\ pc = "parse"
    /\ \/ Propagates("ValueError")
       \/ Propagates("KeyError")
       \/ pc' = "returned" /\ UNCHANGED exc
    /\ UNCHANGED <<run, caller, use_script, files, proc, session_vars, diff_vars, parse_vars>>

\* the evaluation is over; the next one may start
RunEnds ==
    /\ pc \in {"returned", "raised"}
    /\ pc' = "idle"
    /\ caller' = "none" /\ use_script' = FALSE /\ proc' = "none" /\ exc' = "none"
    /\ UNCHANGED <<run, files, session_vars, diff_vars, parse_vars>>

-----------------------------------------------------------------------------
(* The parse loop of LinearASMRepl.evaluate applied to transcripts drawn   *)
(* from bounded sets.                                                      *)

\* the most lines between the delimiters of one snapshot of a transcript
MaxRows == 2

\* the lines found between the delimiters: "rax 0x0 0", "rax 0x1 1",
\* "eflags 0x2 [ ZF ]" (the rows `info registers` prints), and "rax 0x0", "x"
\* and the empty line
RowLines ==
    { <<"r", "a", "x", " ", "0", "x", "0", " ", "0">>,
      <<"r", "a", "x", " ", "0", "x", "1", " ", "1">>,
      <<"e", "f", "l", "a", "g", "s", " ", "0", "x", "2", " ", "[", " ", "Z", "F", " ", "]">>,
      <<"r", "a", "x", " ", "0", "x", "0">>,
      <<"x">>,
      <<>> }

\* the sequences of at most n lines between two delimiters
RowSeqs(n) == UNION { [1..k -> RowLines] : k \in 0..n }

\* what the program under the debugger prints itself: nothing, "hi", "a b c",
\* an empty line
OutputLines ==
    { <<>>, << <<"h", "i">> >>, << <<"a", " ", "b", " ", "c">> >>, << <<>> >> }

\* the transcripts: program output, the snapshot of .block.0 or none, program
\* output, the snapshot of .end or none, every line ended by a newline (the
\* tracepoints of the generated script fire once each, in program order)
Transcripts ==
    { Concat([i \in 1..Len(a \o b \o c \o d) |-> (a \o b \o c \o d)[i] \o <<"\n">>]) :
        a \in { o \in OutputLines : o # << <<>> >> },
        b \in {<<>>} \cup { SnapshotLines(BlockLabel(0), rows) : rows \in RowSeqs(MaxRows) },
        c \in { o \in OutputLines : o # << <<"h", "i">> >> },
        d \in {<<>>} \cup { SnapshotLines(EndLabel, rows) : rows \in RowSeqs(1) } }

ParseIdle == gdb_output = <<>> /\ parse_out = None

ParseInit ==
    /\ gdb_output \in Transcripts
    /\ parse_out = None

\* evaluate, from `gdb_output = result["stdout"].decode()` to the end of the loop
ParseCall ==
    /\ parse_out = None
    /\ parse_out' = Some(Parse(gdb_output))
    /\ UNCHANGED <<gdb_output, session_vars, diff_vars, run_vars>>

-----------------------------------------------------------------------------
(* The specifications.                                                     *)

\* the kernel's turns on one session
Init == SessionInit /\ DiffIdle /\ RunIdle /\ ParseIdle

Next == DoExecute \/ TurnEnds

Spec == Init /\ [][Next]_vars

\* print_result on every snapshot map
InitDiff == SessionInit /\ variant = "Linear" /\ DiffInit /\ RunIdle /\ ParseIdle

NextDiff == PrintResultCall

SpecDiff == InitDiff /\ [][NextDiff]_vars

\* the runs of run_binary and temp_binary
InitRun == SessionInit /\ variant = "Linear" /\ DiffIdle /\ RunIdle /\ ParseIdle

NextRun ==
    \/ RunStarts
    \/ MakeScript
    \/ MakeBinary
    \/ Chmod
    \/ Spawn
    \/ Body
    \/ KillProcess
    \/ UnlinkScript
    \/ Readelf
    \/ UnlinkBinary
    \/ ParseStep
    \/ RunEnds

SpecRun == InitRun /\ [][NextRun]_vars

\* print_result on snapshots of 0 .. MaxRegisters displayed registers
InitGrid == SessionInit /\ variant = "Linear" /\ GridInit /\ RunIdle /\ ParseIdle

NextGrid == PrintResultCall

SpecGrid == InitGrid /\ [][NextGrid]_vars

\* the parse loop on every transcript
InitParse == SessionInit /\ variant = "Linear" /\ DiffIdle /\ RunIdle /\ ParseInit

NextParse == ParseCall

SpecParse == InitParse /\ [][NextParse]_vars

-----------------------------------------------------------------------------
(* The session claims, checked under Spec.                                 *)

\* the turn just run, by the path do_execute took
Ran == request # None /\ ~request[1].silent
RanFragment == Ran /\ ~IsMagic(request[1].code)
RanReset == Ran /\ request[1].code = <<"%", "r", "e", "s", "e", "t">>
StoreBefore == CodeBlocksOf(variant, before[1].labels, before[1].code_blocks)

\* C1: a fragment turn whose program the assembler rejects sends the
\* assembler's diagnostic text and leaves the Fragment Store as it was before
\* the turn.
C1_RejectedTurnLeavesStore ==
    (RanFragment /\ toolout.asm = "reject") =>
        /\ sent = << [msg_type |-> "stream", name |-> "stderr", text |-> toolout.stderr] >>
        /\ labels = before[1].labels
        /\ code_blocks = before[1].code_blocks

\* The lines of a fragment as the label-merge session sees them (trimmed), the
\* label a line defines (the text before its colon), and the block a label line
\* opens: the lines from it up to the next label line, each with its newline.
LinesOf(f) == [i \in 1..Len(Split(f, "\n")) |-> Strip(Split(f, "\n")[i])]
DefinesLabel(line) == Contains(line, ":") /\ (line = <<>> \/ line[1] # ".")
LabelOf(line) == SubSeq(line, 1, (CHOOSE i \in 1..Len(line) : line[i] = ":" /\ \A j \in 1..(i - 1) : line[j] # ":") - 1)
DefinitionsIn(f) ==
    { i \in 1..Len(LinesOf(f)) : DefinesLabel(LinesOf(f)[i]) }
BlockEnd(f, i) ==
    IF \E j \in DefinitionsIn(f) : j > i
    THEN (CHOOSE j \in DefinitionsIn(f) : j > i /\ \A k \in DefinitionsIn(f) : k > i => j <= k) - 1
    ELSE Len(LinesOf(f))
BlockText(f, i) == Concat([k \in 1..(BlockEnd(f, i) - i + 1) |-> LinesOf(f)[i + k - 1] \o <<"\n">>])
Defines(f, label) == \E i \in DefinitionsIn(f) : LabelOf(LinesOf(f)[i]) = label
LastDefinition(f, label) ==
    CHOOSE i \in DefinitionsIn(f) :
        /\ LabelOf(LinesOf(f)[i]) = label
        /\ \A j \in DefinitionsIn(f) : LabelOf(LinesOf(f)[j]) = label => j <= i
\* where in the history a label was first defined: <<fragment, line>>
FirstDefinition(label) ==
    LET n == CHOOSE n \in 1..Len(submitted) :
                 Defines(submitted[n], label) /\ \A m \in 1..(n - 1) : ~Defines(submitted[m], label)
        i == CHOOSE i \in DefinitionsIn(submitted[n]) :
                 /\ LabelOf(LinesOf(submitted[n])[i]) = label
                 /\ \A j \in DefinitionsIn(submitted[n]) :
                        LabelOf(LinesOf(submitted[n])[j]) = label => i <= j
    IN <<n, i>>
Earlier(p, q) == p[1] < q[1] \/ (p[1] = q[1] /\ p[2] < q[2])
LastDefiner(label) ==
    CHOOSE n \in 1..Len(submitted) :
        Defines(submitted[n], label) /\ \A m \in (n + 1)..Len(submitted) : ~Defines(submitted[m], label)

\* C2: in the label-merge session, after any submits since the last reset, the
\* program holds one block per label, the blocks are in the order in which
\* their labels were first defined, and each block's content is the one of the
\* most recent fragment that defined its label.
C2_LabelMerge ==
    variant = "Editable" =>
        /\ \A i, j \in 1..Len(labels) : labels[i][1] = labels[j][1] => i = j
        /\ \A i \in 1..Len(labels) :
              \E n \in 1..Len(submitted) : Defines(submitted[n], labels[i][1])
        /\ \A n \in 1..Len(submitted) : \A i \in DefinitionsIn(submitted[n]) :
              LabelOf(LinesOf(submitted[n])[i]) # <<>> =>
                  \E k \in 1..Len(labels) : labels[k][1] = LabelOf(LinesOf(submitted[n])[i])
        /\ \A i, j \in 1..Len(labels) :
              i < j => Earlier(FirstDefinition(labels[i][1]), FirstDefinition(labels[j][1]))
        /\ \A i \in 1..Len(labels) :
              LET f == submitted[LastDefiner(labels[i][1])]
              IN labels[i][2] = BlockText(f, LastDefinition(f, labels[i][1]))
        /\ CodeBlocks = [i \in 1..Len(labels) |-> labels[i][2]]

\* C2's case: A ("x:\na\ny:\nb") then B ("x:\nc") were submitted, and the
\* program lists x before y with x's content from B.
C2_Witness ==
    /\ variant = "Editable"
    /\ submitted = << <<"x", ":", "\n", "a", "\n", "y", ":", "\n", "b">>, <<"x", ":", "\n", "c">> >>
    /\ CodeBlocks = << <<"x", ":", "\n", "c", "\n">>, <<"y", ":", "\n", "b", "\n">> >>
    /\ IsSubstring(<<"\n", "x", ":", "\n", "c", "\n", "\n", "y", ":", "\n", "b", "\n", "\n", ".", "e", "n", "d", ":">>,
                   Render)

\* the lines of a fragment that are under no label: those before its first
\* label line, all of them when it has no label line
UnlabeledLines(f) ==
    IF DefinitionsIn(f) = {} THEN LinesOf(f)
    ELSE SubSeq(LinesOf(f), 1, (CHOOSE i \in DefinitionsIn(f) : \A j \in DefinitionsIn(f) : i <= j) - 1)

\* C3: in the label-merge session the text under no label (the lines of a
\* fragment before its first label line, a whole fragment without a label line)
\* is kept in the rendered program: no submitted line is lost.
C3_UnlabeledTextKept ==
    variant = "Editable" =>
        \A n \in 1..Len(submitted) :
            IsSubstring(UnlabeledLines(submitted[n]), Split(Render, "\n"))

\* C4: after reset() the rendered program is the session's fixed preamble
\* followed by the terminal marker (trimmed as every rendering is) and no block
\* remains, whatever was submitted before; a reset of a session already reset
\* changes nothing.
C4_ResetClears ==
    RanReset =>
        /\ CodeBlocks = <<>>
        /\ labels = <<>> /\ code_blocks = <<>>
        /\ Render = Strip(PrefixOf(variant) \o asm_suffix)
        /\ StoreBefore = <<>> =>
              (labels = before[1].labels /\ code_blocks = before[1].code_blocks)

\* C4's case: a reset directive ran on a session that held two blocks.
C4_Witness ==
    /\ RanReset
    /\ Len(StoreBefore) = 2
    /\ Render = Strip(PrefixOf(variant) \o asm_suffix)

\* the address of the k-th tracepoint (0-based) of a script for n fragments
TracepointAddress(k, n) ==
    IF k = n THEN <<".", "e", "n", "d">>
    ELSE <<".", "b", "l", "o", "c", "k", ".">> \o << <<"0", "1", "2", "3", "4", "5", "6", "7", "8", "9">>[k + 1] >>

\* C8: in the checkpoint session with N fragments appended since the last
\* reset, the script holds exactly N+1 one-shot tracepoints, at .block.0 ..
\* .block.<N-1> and then .end, each printing the opening delimiter with its
\* address, the registers and the closing delimiter and then continuing, and
\* it ends with the only run command.
C8_ScriptTracepoints ==
    variant = "Linear" =>
        LET n == Len(submitted)
            script == Split(GdbScript(variant, CodeBlocks)[1], "\n")
        IN /\ Len(script) = 7 * (n + 1) + 1
           /\ \A k \in 0..n :
                 /\ script[7 * k + 1] = <<"t", "b", "r", "e", "a", "k", " ">> \o TracepointAddress(k, n)
                 /\ script[7 * k + 2] = <<"c", "o", "m", "m", "a", "n", "d", "s">>
                 /\ script[7 * k + 3] =
                        <<"p", "r", "i", "n", "t", "f", " ", "\"", "#", "#", "#", "s", "t", "a", "r", "t", " ",
                          "r", "e", "g", "i", "s", "t", "e", "r", "s", " ">>
                        \o TracepointAddress(k, n) \o <<"\\", "n", "\"">>
                 /\ script[7 * k + 4] = <<"i", "n", "f", "o", " ", "r", "e", "g", "i", "s", "t", "e", "r", "s">>
                 /\ script[7 * k + 5] =
                        <<"p", "r", "i", "n", "t", "f", " ", "\"", "#", "#", "#", "e", "n", "d", "\\", "n", "\"">>
                 /\ script[7 * k + 6] = <<"c", "o", "n", "t", "i", "n", "u", "e">>
                 /\ script[7 * k + 7] = <<"e", "n", "d">>
           /\ script[Len(script)] = <<"r", "u", "n">>
           /\ Cardinality({ i \in 1..Len(script) : script[i] = <<"r", "u", "n">> }) = 1
           /\ Cardinality({ i \in 1..Len(script) :
                              StartsWith(script[i], <<"t", "b", "r", "e", "a", "k", " ">>) }) = n + 1

\* C8's case: two fragments were appended and the script holds three
\* tracepoints and the run command.
C8_Witness ==
    /\ variant = "Linear"
    /\ Len(submitted) = 2
    /\ Len(Split(GdbScript(variant, CodeBlocks)[1], "\n")) = 22
    /\ request = None

-----------------------------------------------------------------------------
(* The report claims, checked under SpecDiff (C5, C7) and Spec (C6).       *)

\* the checkpoint of the last fragment
LastCheckpoint == <<".", "b", "l", "o", "c", "k", ".">> \o Str(n_blocks - 1)
CheckpointMissing ==
    \/ \A i \in 1..Len(gdb_data) : gdb_data[i][1] # <<".", "e", "n", "d">>
    \/ \A i \in 1..Len(gdb_data) : gdb_data[i][1] # LastCheckpoint

\* C5: when the snapshot map lacks the terminal checkpoint or the last
\* fragment's checkpoint, building the report fails with MissingCheckpoint, not
\* with an unrelated lookup fault.
C5_MissingCheckpointError ==
    (report # None /\ CheckpointMissing) => report[1].exc = "MissingCheckpoint"

\* the run of the turn reached no terminal checkpoint or no checkpoint of the
\* last fragment: its transcript holds no opening delimiter for it
LacksSnapshot(address) ==
    \A i \in 1..Len(Split(toolout.stdout, "\n")) :
        Split(toolout.stdout, "\n")[i] #
            <<"#", "#", "#", "s", "t", "a", "r", "t", " ", "r", "e", "g", "i", "s", "t", "e", "r", "s", " ">>
            \o address
IncompleteRun ==
    /\ RanFragment
    /\ variant = "Linear"
    /\ toolout.asm = "ok"
    /\ \/ LacksSnapshot(<<".", "e", "n", "d">>)
       \/ LacksSnapshot(<<".", "b", "l", "o", "c", "k", ".">> \o Str(Len(code_blocks) - 1))

\* C6: when a checkpoint never appears in the transcript, the turn still
\* reports the standard output, standard error and exit code of the run.
C6_OutputStillReported ==
    IncompleteRun =>
        \E i \in 1..Len(sent) :
            /\ sent[i].msg_type = "display_data"
            /\ \E j \in 1..Len(sent[i].results) : sent[i].results[j] = <<"stdout", toolout.stdout>>
            /\ \E j \in 1..Len(sent[i].results) : sent[i].results[j] = <<"stderr", toolout.stderr>>
            /\ \E j \in 1..Len(sent[i].results) : sent[i].results[j] = <<"returncode", toolout.returncode>>

\* the two snapshots print_result compares, as functions of the register name
TerminalSnapshot ==
    gdb_data[CHOOSE i \in 1..Len(gdb_data) : gdb_data[i][1] = <<".", "e", "n", "d">>][2]
LastSnapshot ==
    gdb_data[CHOOSE i \in 1..Len(gdb_data) : gdb_data[i][1] = LastCheckpoint][2]
Names(snapshot) == { snapshot[i][1] : i \in 1..Len(snapshot) }
RowOf(snapshot, k) == snapshot[CHOOSE i \in 1..Len(snapshot) : snapshot[i][1] = k][2]
Selectors == { <<"c", "s">>, <<"s", "s">>, <<"d", "s">>, <<"e", "s">>, <<"f", "s">>, <<"g", "s">> }
\* the compared representation: the decoded form of eflags, the raw value else
Representation(snapshot, k) ==
    IF k = <<"e", "f", "l", "a", "g", "s">> THEN RowOf(snapshot, k)[2] ELSE RowOf(snapshot, k)[1]

\* C7: for two snapshots over the same register names, the changed set is
\* exactly the registers other than cs, ss, ds, es, fs, gs whose compared
\* representation differs (the decoded form for eflags, the raw value for the
\* others); the segment selectors are neither in the changed set nor shown.
C7_ChangedSet ==
    (report # None /\ ~CheckpointMissing /\ Names(LastSnapshot) = Names(TerminalSnapshot)) =>
        /\ report[1].exc = "none"
        /\ report[1].changed =
               { k \in Names(TerminalSnapshot) \ Selectors :
                    Representation(TerminalSnapshot, k) # Representation(LastSnapshot, k) }
        /\ { report[1].shown[i][1] : i \in 1..Len(report[1].shown) }
               = Names(TerminalSnapshot) \ Selectors
        /\ \A i \in 1..Len(report[1].shown) :
               report[1].shown[i][2] = Representation(TerminalSnapshot, report[1].shown[i][1])
        /\ \A r \in 1..Len(report[1].registers) : \A c \in 1..3 :
               /\ report[1].registers[r][c].b \notin Selectors
               /\ report[1].registers[r][c].changed = (report[1].registers[r][c].b \in report[1].changed)

\* C7's case: rax differs, eflags differs in its raw value only, and cs
\* differs: the changed set is {rax}.
C7_Witness ==
    /\ report # None /\ ~CheckpointMissing
    /\ Names(LastSnapshot) = { <<"r", "a", "x">>, <<"e", "f", "l", "a", "g", "s">>, <<"c", "s">> }
    /\ Names(TerminalSnapshot) = Names(LastSnapshot)
    /\ RowOf(TerminalSnapshot, <<"c", "s">>) # RowOf(LastSnapshot, <<"c", "s">>)
    /\ RowOf(TerminalSnapshot, <<"e", "f", "l", "a", "g", "s">>)[1] # RowOf(LastSnapshot, <<"e", "f", "l", "a", "g", "s">>)[1]
    /\ report[1].changed = { <<"r", "a", "x">> }

-----------------------------------------------------------------------------
(* The resource claims, checked under SpecRun.                             *)

\* the scope of the run (the with of run_binary, or of temp_binary in
\* magic_readelf) has been left
ScopeLeft == pc \in {"parse", "returned", "raised"}

\* C9: every temporary file made for a run (the binary image, the debugger
\* script) is removed by the time the run's scope is left, on every exit path.
C9_TemporaryFilesRemoved ==
    ScopeLeft => \A f \in files : f.run # run

\* C10: a child process spawned for a run has been killed (or has exited) by
\* the time the run's scope is left, on every exit path; no evaluation returns
\* or fails with its child running.
C10_ChildNotLeftRunning ==
    ScopeLeft => proc # "running"

\* C10's case: the body raised while the child was running, and the scope was
\* left with the child killed.
C10_Witness ==
    /\ pc = "raised"
    /\ exc = "Exception"
    /\ proc = "killed"

-----------------------------------------------------------------------------
(* The parser claims, checked under SpecParse.                             *)

\* the lines of the transcript, the delimiter lines among them, and the
\* checkpoint identifier an opening delimiter names
TranscriptLines == Split(gdb_output, "\n")
IsOpeningLine(i) ==
    /\ StartsWith(TranscriptLines[i],
                  <<"#", "#", "#", "s", "t", "a", "r", "t", " ", "r", "e", "g", "i", "s", "t", "e", "r", "s", " ">>)
    /\ Len(TranscriptLines[i]) > 19
IdOn(i) == SubSeq(TranscriptLines[i], 20, Len(TranscriptLines[i]))
IsClosingLine(i) == TranscriptLines[i] = <<"#", "#", "#", "e", "n", "d">>
\* line i lies in the snapshot opened by line j: after it, before the next
\* closing delimiter, and no delimiter itself
OpenedBy(i, j) ==
    /\ j \in 1..(i - 1)
    /\ IsOpeningLine(j)
    /\ ~IsOpeningLine(i) /\ ~IsClosingLine(i)
    /\ \A k \in (j + 1)..(i - 1) : ~IsClosingLine(k)
InsideSnapshot(i) == \E j \in 1..(i - 1) : OpenedBy(i, j)
Openings == { j \in 1..Len(TranscriptLines) : IsOpeningLine(j) }
RowsOf(j) == { i \in 1..Len(TranscriptLines) : OpenedBy(i, j) }
\* the fields of a row: its whitespace-separated tokens, and the rest of the
\* line after the second of them
Fields(i) == SplitWs(TranscriptLines[i])
ExtraOf(i) ==
    LET line == TranscriptLines[i]
        k == CHOOSE k \in 2..Len(line) :
                 /\ line[k] \notin Whitespace
                 /\ line[k - 1] \in Whitespace
                 /\ Len(SplitWs(SubSeq(line, 1, k - 1))) = 2
    IN SubSeq(line, k, Len(line))
\* the snapshot the parse built for the checkpoint opened on line j
SnapshotFor(j) ==
    parse_out[1].data[CHOOSE k \in 1..Len(parse_out[1].data) : parse_out[1].data[k][1] = IdOn(j)][2]
ParseFailed == parse_out # None /\ parse_out[1].exc # "none"
ParseReturned == parse_out # None /\ parse_out[1].exc = "none"

\* C11: the parse yields a mapping whose keys are exactly the checkpoint
\* identifiers named on the opening delimiter lines, the snapshot of each key
\* holds exactly the register rows between its opening delimiter and the next
\* closing delimiter, and the lines outside the snapshots add nothing and make
\* nothing fail.
C11_ParseSnapshots ==
    /\ ParseFailed =>
          \E i \in 1..Len(TranscriptLines) : InsideSnapshot(i) /\ Len(Fields(i)) < 3
    /\ ParseReturned =>
          /\ { parse_out[1].data[k][1] : k \in 1..Len(parse_out[1].data) }
                 = { IdOn(j) : j \in Openings }
          /\ Len(parse_out[1].data) = Cardinality(Openings)
          /\ \A j \in Openings :
                /\ { SnapshotFor(j)[m][1] : m \in 1..Len(SnapshotFor(j)) }
                       = { Fields(i)[1] : i \in RowsOf(j) }
                /\ \A m \in 1..Len(SnapshotFor(j)) : \E i \in RowsOf(j) :
                       SnapshotFor(j)[m] = <<Fields(i)[1], <<Fields(i)[2], ExtraOf(i)>> >>

\* C11's case: a transcript with program output before and between two
\* snapshots, of two rows and of one row, was parsed.
C11_Witness ==
    /\ ParseReturned
    /\ Cardinality(Openings) = 2
    /\ \E j \in Openings : Cardinality(RowsOf(j)) = 2 /\ Len(SnapshotFor(j)) = 2
    /\ \E i \in 1..Len(TranscriptLines) :
          TranscriptLines[i] = <<"a", " ", "b", " ", "c">> /\ ~InsideSnapshot(i)
    /\ TranscriptLines[1] = <<"h", "i">>

\* C12: a line inside an open snapshot that is no register row (a blank line,
\* a single token) makes the parse fail, and the failure propagates; the parse
\* never returns a snapshot map that lacks the row of a line it skipped.
C12_MalformedRowFails ==
    /\ (parse_out # None
        /\ \E i \in 1..Len(TranscriptLines) : InsideSnapshot(i) /\ Len(Fields(i)) < 2)
          => parse_out[1].exc = "ValueError"
    /\ ParseReturned =>
          \A j \in Openings : \A i \in RowsOf(j) :
              /\ Fields(i) # <<>>
              /\ \E m \in 1..Len(SnapshotFor(j)) : SnapshotFor(j)[m][1] = Fields(i)[1]

\* C12's case: a snapshot holds a register row and then a blank line, and the
\* parse failed.
C12_Witness ==
    /\ ParseFailed
    /\ \E j \in Openings : \E i \in RowsOf(j) :
          /\ TranscriptLines[i] = <<>>
          /\ i - 1 \in RowsOf(j)
          /\ Len(Fields(i - 1)) = 3

\* the last row of the snapshot opened on line j that names register r
LastRowNaming(j, r) ==
    CHOOSE i \in RowsOf(j) :
        /\ Fields(i)[1] = r
        /\ \A h \in RowsOf(j) : Fields(h)[1] = r => h <= i

\* C13 as stated: a row is a register name, a value and an optional extra
\* form: a row of a name and a value only is accepted and inserted, and of the
\* rows of one snapshot that name the same register the last one wins.
C13_ExtraOptional ==
    (parse_out # None
     /\ \A i \in 1..Len(TranscriptLines) : InsideSnapshot(i) => Len(Fields(i)) >= 2)
      => /\ parse_out[1].exc = "none"
         /\ \A j \in Openings : \A i \in RowsOf(j) :
               \E m \in 1..Len(SnapshotFor(j)) :
                   /\ SnapshotFor(j)[m][1] = Fields(i)[1]
                   /\ SnapshotFor(j)[m][2][1] = Fields(LastRowNaming(j, Fields(i)[1]))[2]

\* C13 as amended: a row is a register name, a value and the extra form, which
\* is the rest of the line and is required: a row of a name and a value only
\* makes the parse fail; rows of three fields are inserted, and of the rows of
\* one snapshot that name the same register the last one wins.
C13_RowFields ==
    parse_out # None =>
        IF \E i \in 1..Len(TranscriptLines) : InsideSnapshot(i) /\ Len(Fields(i)) < 3
        THEN parse_out[1].exc = "ValueError"
        ELSE /\ parse_out[1].exc = "none"
             /\ \A j \in Openings : \A i \in RowsOf(j) :
                   \E m \in 1..Len(SnapshotFor(j)) :
                       LET last == LastRowNaming(j, Fields(i)[1])
                       IN SnapshotFor(j)[m] =
                              <<Fields(i)[1], <<Fields(last)[2], ExtraOf(last)>> >>

\* C13's case: the snapshot of .block.0 names rax twice ("rax 0x0 0", then
\* "rax 0x1 1") and holds the second row; the snapshot of .end holds eflags
\* with the extra form "[ ZF ]".
C13_Witness ==
    /\ ParseReturned
    /\ parse_out[1].data =
          << << <<".", "b", "l", "o", "c", "k", ".", "0">>,
                << << <<"r", "a", "x">>, << <<"0", "x", "1">>, <<"1">> >> >> >> >>,
             << <<".", "e", "n", "d">>,
                << << <<"e", "f", "l", "a", "g", "s">>,
                      << <<"0", "x", "2">>, <<"[", " ", "Z", "F", " ", "]">> >> >> >> >> >>
    /\ Cardinality(UNION { RowsOf(j) : j \in Openings }) = 3

-----------------------------------------------------------------------------
(* The turn claims, checked under Spec.                                    *)

\* the entry-point label name "_start" occurs in the text
NamesEntryPoint(text) ==
    \E i \in 1..(Len(text) - 5) :
        /\ text[i] = "_" /\ text[i + 1] = "s" /\ text[i + 2] = "t"
        /\ text[i + 3] = "a" /\ text[i + 4] = "r" /\ text[i + 5] = "t"
\* the turn ran an evaluation: the assembler was given the program
RanEvaluation == toolout.asm # "none"

\* C14: a fragment turn runs an evaluation exactly when submit() reports
\* readiness: in the label-merge session exactly when _start occurs in the
\* submitted text, whatever was submitted before; in the checkpoint session
\* on every submission.
C14_ReadinessByVariant ==
    RanFragment =>
        (RanEvaluation <=> (variant = "Linear" \/ NamesEntryPoint(request[1].code)))

\* C14's case: the label-merge session holds _start from an earlier fragment,
\* the fragment "b" was submitted and no evaluation ran.
C14_Witness ==
    /\ RanFragment
    /\ variant = "Editable"
    /\ submitted = << <<"_", "s", "t", "a", "r", "t", ":", "\n", "a">>, <<"b">> >>
    /\ \E i \in 1..Len(labels) : labels[i][1] = <<"_", "s", "t", "a", "r", "t">>
    /\ ~RanEvaluation
    /\ sent # <<>>

\* the turn ran one of the four directives, and the tools it used succeeded
RanDirective ==
    /\ Ran
    /\ request[1].code \in { <<"%", "a", "s", "m">>, <<"%", "r", "e", "a", "d", "e", "l", "f">>,
                             <<"%", "r", "e", "s", "e", "t">>, <<"%", "g", "d", "b">>,
                             <<"%", "g", "d", "b", "\n", "r", "u", "n">> }
ToolsSucceeded ==
    /\ toolout.asm # "reject"
    /\ request[1].code = <<"%", "r", "e", "a", "d", "e", "l", "f">> => toolout.returncode = 0

\* C15: every directive turn (%asm, %readelf, %reset, %gdb) whose tools
\* succeed completes by responding with a named-results mapping that is
\* rendered to the user; a reset directive empties the store and its turn
\* completes without raising.
C15_DirectiveResponds ==
    (RanDirective /\ ToolsSucceeded) =>
        /\ raised = "none"
        /\ Len(sent) = 1
        /\ sent[1].msg_type = "display_data"
        /\ RanReset => (labels = <<>> /\ code_blocks = <<>>)

\* C16: render() is a pure read: the program rendered after a %asm turn is the
\* text that turn rendered, and a turn that renders the program (%asm,
\* %readelf, %gdb) leaves the blocks, their order and their contents as they
\* were, in both sessions.
C16_RenderIsPureRead ==
    /\ (Ran /\ request[1].code = <<"%", "a", "s", "m">>) =>
          /\ sent = << [msg_type |-> "display_data", results |-> << <<"asm", Render>> >>] >>
          /\ Render = Code(variant, StoreBefore)
    /\ (RanDirective /\ ~RanReset) =>
          /\ labels = before[1].labels
          /\ code_blocks = before[1].code_blocks

\* C16's case: %asm ran on a label-merge session of two blocks.
C16_Witness ==
    /\ Ran /\ request[1].code = <<"%", "a", "s", "m">>
    /\ variant = "Editable"
    /\ Len(labels) = 2
    /\ Len(sent) = 1

\* the synthetic label of the i-th block (0-based), the labels of that form
\* on the lines of the rendered program, and the addresses of the tracepoints
\* of the script
SyntheticLabel(i) ==
    <<".", "b", "l", "o", "c", "k", ".">> \o << <<"0", "1", "2", "3", "4", "5", "6", "7", "8", "9">>[i + 1] >>
RenderedSyntheticLabels ==
    LET lines == Split(Render, "\n")
    IN { SubSeq(lines[i], 1, Len(lines[i]) - 1) :
           i \in { k \in 1..Len(lines) :
                     /\ StartsWith(lines[k], <<".", "b", "l", "o", "c", "k", ".">>)
                     /\ lines[k][Len(lines[k])] = ":" } }
ScriptAddresses ==
    LET lines == Split(GdbScript(variant, CodeBlocks)[1], "\n")
    IN { SubSeq(lines[i], 8, Len(lines[i])) :
           i \in { k \in 1..Len(lines) :
                     StartsWith(lines[k], <<"t", "b", "r", "e", "a", "k", " ">>) } }

\* C19: in the checkpoint session, after any submits and resets, the i-th
\* block (0-based) begins with the synthetic label .block.<i>, the synthetic
\* labels are pairwise distinct, the tracepoint addresses of the script are
\* the synthetic labels of the rendered program and .end, and after a reset
\* the session is as a fresh one: the numbering restarts at 0.
C19_SyntheticLabels ==
    variant = "Linear" =>
      LET RenderedLabels == RenderedSyntheticLabels
          Addresses == ScriptAddresses
      IN
        /\ \A i \in 1..Len(code_blocks) :
              StartsWith(code_blocks[i], SyntheticLabel(i - 1) \o <<":", "\n">>)
        /\ Cardinality(RenderedLabels) = Len(code_blocks)
        /\ RenderedLabels = { SyntheticLabel(i - 1) : i \in 1..Len(code_blocks) }
        /\ Addresses = RenderedLabels \cup { <<".", "e", "n", "d">> }
        /\ RanReset =>
              /\ code_blocks = <<>>
              /\ Render = Strip(linear_asm_prefix \o asm_suffix)
              /\ Addresses = { <<".", "e", "n", "d">> }
              /\ \A c \in Fragments :
                    StartsWith(LinearRead(code_blocks, c)[1], SyntheticLabel(0) \o <<":", "\n">>)

\* C19's case: a reset ran on a checkpoint session of two blocks, and the
\* script of the session holds the terminal tracepoint only.
C19_Witness ==
    /\ RanReset
    /\ variant = "Linear"
    /\ Len(before[1].code_blocks) = 2
    /\ ScriptAddresses = { <<".", "e", "n", "d">> }

-----------------------------------------------------------------------------
(* The layout claims, checked under SpecGrid.                              *)

\* the displayed registers: the names of the terminal snapshot in its
\* enumeration order, the segment selectors removed
Displayed ==
    SelectSeq([i \in 1..Len(TerminalSnapshot) |-> TerminalSnapshot[i][1]],
              LAMBDA k : k \notin Selectors)
ReportBuilt == report # None /\ report[1].exc = "none"
\* the cell at row r, column c of the table (both 0-based)
Cell(r, c) == report[1].registers[r + 1][c + 1]
CellsOf(k) ==
    { rc \in (0..(Len(report[1].registers) - 1)) \X (0..2) : Cell(rc[1], rc[2]).b = k }

\* C17 as stated: the displayed registers are laid out in 3 columns in
\* row-major order of the terminal snapshot's enumeration order (segment
\* registers removed): the cell at row r, column c shows the register at
\* index 3*r + c.
C17_RowMajorGrid ==
    ReportBuilt =>
        /\ Len(report[1].registers) = (Len(Displayed) + 2) \div 3
        /\ \A r \in 0..(Len(report[1].registers) - 1) : \A c \in 0..2 :
              3 * r + c < Len(Displayed) => Cell(r, c).b = Displayed[3 * r + c + 1]

\* C17 as amended: the displayed registers are laid out in 3 columns and
\* ceil(n/3) rows, column by column, in the terminal snapshot's enumeration
\* order (segment registers removed): the cell at row r, column c shows the
\* register at index floor(n/3)*c + r, with its compared value.
C17_ColumnMajorGrid ==
    ReportBuilt =>
        /\ Len(report[1].registers) = (Len(Displayed) + 2) \div 3
        /\ \A r \in 0..(Len(report[1].registers) - 1) : \A c \in 0..2 :
              /\ (Len(Displayed) \div 3) * c + r < Len(Displayed)
              /\ Cell(r, c).b = Displayed[(Len(Displayed) \div 3) * c + r + 1]
              /\ Cell(r, c).div = Representation(TerminalSnapshot, Cell(r, c).b)

\* C17's case: six registers are displayed (cs, among them in the snapshot,
\* is not), in two rows: r8 r10 r12 over r9 r11 r13.
C17_Witness ==
    /\ ReportBuilt
    /\ Len(TerminalSnapshot) = 7
    /\ Len(Displayed) = 6
    /\ [r \in 1..2 |-> [c \in 1..3 |-> report[1].registers[r][c].b]] =
          << << <<"r", "8">>, <<"r", "1", "0">>, <<"r", "1", "2">> >>,
             << <<"r", "9">>, <<"r", "1", "1">>, <<"r", "1", "3">> >> >>

\* C18: for every number n >= 0 of displayed registers the table shows each of
\* them exactly once (none omitted, none twice) and no cell lookup falls
\* outside the register list, also when n is no multiple of 3.
C18_EachRegisterOnce ==
    report # None =>
        /\ report[1].exc = "none"
        /\ \A i \in 1..Len(Displayed) : Cardinality(CellsOf(Displayed[i])) = 1

=============================================================================
